---- MODULE Spec2Model ----
(***************************************************************************)
(* Model of src/diff.hh: the linear space variant of Myers' O(ND)          *)
(* difference algorithm (find_diff, find_diff_rec, find_middle_snake,      *)
(* find_end_snake_of_further_reaching_dpath, append_diff).                 *)
(*                                                                         *)
(* The recursion of find_diff_rec is run on an explicit stack of frames;   *)
(* one step of the model is one call entry, one iteration of one of the    *)
(* two inner loops of find_middle_snake, or one return.  The two working   *)
(* arrays V1 and V2 are offset views into the single vector `data`, as in  *)
(* find_diff.                                                              *)
(*                                                                         *)
(* kak_assert is taken to abort: a failed assertion stops the program at   *)
(* pc = "assert" (line 134) or pc = "nocross" (line 86).  An access        *)
(* outside the vector or outside a or b is undefined behaviour: the        *)
(* program stops at pc = "ub", after which nothing is known about it.      *)
(*                                                                         *)
(* shadow, diffs2 and the snake2 field of a frame belong to a second run   *)
(* on the same inputs whose vector starts from other contents; it is       *)
(* stepped together with the first run.  touched and written record the    *)
(* accesses to V1 and V2.                                                  *)
(***************************************************************************)
EXTENDS Integers, Sequences, FiniteSets

VARIABLES
    A, B,        \* the two input sequences (read only)
    data,        \* Vector<int> data(2*max), holds V1 and V2
    shadow,      \* the same vector in a second run that starts from other contents
    diffs,       \* Vector<Diff> diffs, the edit script being built
    diffs2,      \* the edit script of the second run
    stack,       \* frames of the find_diff_rec calls that are inside their recursive case
    args,        \* arguments of the find_diff_rec call being entered
    pc,          \* position of the program
    D, k,        \* loop variables of find_middle_snake
    touched,     \* accesses to V1/V2 made by the last step
    written      \* slots written since the current find_middle_snake call began

vars == <<A, B, data, shadow, diffs, diffs2, stack, args, pc, D, k, touched, written>>

----------------------------------------------------------------------------
(* Bounds of the model. *)

MaxLen == 3

\* 1 and 4 are different elements that the equality predicate does not tell apart
Alphabet == {1, 2, 4}

\* Equal eq: the caller's equality predicate, an equivalence relation that need not
\* be identity
Eq(a, b) == (a % 3) = (b % 3)

\* contents the vector of the second run may start from
StaleValues == {-1, 3}

\* the example of the paper: A = "ABCABBA", B = "CBABAC"
ClassicA == <<1, 2, 3, 1, 2, 2, 1>>

ClassicB == <<3, 2, 1, 2, 1, 3>>

SeqsUpTo(n) == UNION {[1..m -> Alphabet] : m \in 0..n}

Inputs == (SeqsUpTo(MaxLen) \X SeqsUpTo(MaxLen)) \cup {<<ClassicA, ClassicB>>}

----------------------------------------------------------------------------
(* Iterators: a view maps the 0-based offsets of the source to elements. *)

\* a + beg, restricted to len elements
FwdView(S, beg, len) == [i \in 0..(len - 1) |-> S[beg + i + 1]]

\* std::reverse_iterator{a + beg + len}
RevView(S, beg, len) == [i \in 0..(len - 1) |-> S[beg + len - i]]

\* V[k] for a view V = &data[base]; a slot outside the vector has no defined value
Rd(d, base, kk) == IF (base + kk) \in DOMAIN d THEN d[base + kk] ELSE 0

----------------------------------------------------------------------------
(* find_diff: the allocation. *)

\* faulty variant: one slot per diagonal of one sign only
MaxHalf(N, M) == N + M + 1

\* const int max = 2 * (N + M) + 1;
max(N, M) == 2 * (N + M) + 1

\* &data[N+M]
V1Base(N, M) == N + M

\* &data[max + N+M]
V2Base(N, M) == max(N, M) + N + M

\* Vector<int> data(2*max): 2*max elements, all of the same value
DataInit(N, M, fill) == [i \in 0..(2 * max(N, M) - 1) |-> fill]

----------------------------------------------------------------------------
(* find_end_snake_of_further_reaching_dpath *)

\* faulty variant: the test k == -D is missing
EdgeChoiceNoLowGuard(d, base, DD, kk) ==
    IF kk # DD
    THEN [add |-> Rd(d, base, kk - 1) < Rd(d, base, kk + 1), reads |-> {kk - 1, kk + 1}]
    ELSE [add |-> FALSE, reads |-> {}]

\* the edge choice, with the diagonals of V it reads (the operators short-circuit)
EdgeChoice(d, base, DD, kk) ==
    IF kk = -DD THEN [add |-> TRUE, reads |-> {}]
    ELSE IF kk # DD
         THEN [add |-> Rd(d, base, kk - 1) < Rd(d, base, kk + 1), reads |-> {kk - 1, kk + 1}]
         ELSE [add |-> FALSE, reads |-> {}]

RECURSIVE FollowSnake(_, _, _, _, _, _)
\* while (u < N and v < M and eq(a[u], b[v])) ++u, ++v;  returns u
FollowSnake(a, N, b, M, u, v) ==
    IF u < N /\ v < M /\ u >= 0 /\ v >= 0 /\ Eq(a[u], b[v])
    THEN FollowSnake(a, N, b, M, u + 1, v + 1)
    ELSE u

\* the loop reads a[u], b[v] only at offsets 0 <= u < N, 0 <= v < M unless it starts
\* at a negative offset
SnakeStartDefined(N, M, x, y) == (x >= N) \/ (y >= M) \/ (x >= 0 /\ y >= 0)

find_end_snake_of_further_reaching_dpath(a, N, b, M, d, base, DD, kk) ==
    LET e == EdgeChoice(d, base, DD, kk)
        x == IF e.add THEN Rd(d, base, kk + 1) ELSE Rd(d, base, kk - 1) + 1
        y == x - kk
        u == FollowSnake(a, N, b, M, x, y)
    IN  [x |-> x, y |-> y, u |-> u, v |-> y + (u - x), add |-> e.add,
         reads |-> e.reads \cup (IF e.add THEN {kk + 1} ELSE {kk - 1}),
         defined |-> SnakeStartDefined(N, M, x, y)]

----------------------------------------------------------------------------
(* find_middle_snake *)

NoSnake == [x |-> 0, y |-> 0, u |-> 0, v |-> 0, add |-> FALSE, reverse |-> FALSE, d |-> 0]

\* faulty variant: D < (M + N + 1) / 2
MaxDExclusive(N, M) == (M + N + 1) \div 2 - 1

\* for (int D = 0; D <= (M + N + 1) / 2; ++D)
MaxD(N, M) == (M + N + 1) \div 2

\* faulty variant: sign slip
OtherDiagonalSlip(kk, delta) == -(kk + delta)

\* const int k2 = -(k1 - delta);  const int k1 = -(k2 - delta);
OtherDiagonal(kk, delta) == -(kk - delta)

\* (delta % 2 != 0) and -(D-1) <= k2 and k2 <= (D-1)
\* (the sign of C's % does not matter for a comparison with 0)
ForwardCheck(delta, DD, k2) == (delta % 2 # 0) /\ -(DD - 1) <= k2 /\ k2 <= DD - 1

\* (delta % 2 == 0) and -D <= k1 and k1 <= D
ReverseCheck(delta, DD, k1) == (delta % 2 = 0) /\ -DD <= k1 /\ k1 <= DD

\* faulty variant: V1[k1] + V2[k2] >= N - 1
OverlapEarly(v1, v2, N) == v1 + v2 >= N - 1

\* V1[k1] + V2[k2] >= N
Overlap(v1, v2, N) == v1 + v2 >= N

\* return { p, false, 2 * D - 1 }
ForwardSnake(p, DD) ==
    [x |-> p.x, y |-> p.y, u |-> p.u, v |-> p.v, add |-> p.add,
     reverse |-> FALSE, d |-> 2 * DD - 1]

\* return { { N - p.u, M - p.v, N - p.x , M - p.y, p.add } , true, 2 * D }
ReverseSnake(p, N, M, DD) ==
    [x |-> N - p.u, y |-> M - p.v, u |-> N - p.x, v |-> M - p.y, add |-> p.add,
     reverse |-> TRUE, d |-> 2 * DD]

Base1 == V1Base(Len(A), Len(B))

Base2 == V2Base(Len(A), Len(B))

InVector(d, base, kk) == (base + kk) \in DOMAIN d

Access(arr, kk, kind, fresh) == [arr |-> arr, k |-> kk, kind |-> kind, fresh |-> fresh]

\* V1[1] = 0; V2[1] = 0;
InitSearch(d) == [i \in DOMAIN d |-> IF i = Base1 + 1 \/ i = Base2 + 1 THEN 0 ELSE d[i]]

InitSearchWrites == {<<1, 1>>, <<2, 1>>}

\* one iteration of the loop over k1 (lines 61-69) on the vector d
ForwardIter(d, f, DD, k1) ==
    LET N     == f.endA - f.begA
        M     == f.endB - f.begB
        delta == N - M
        p     == find_end_snake_of_further_reaching_dpath(FwdView(A, f.begA, N), N, FwdView(B, f.begB, M), M,
                              d, Base1, DD, k1)
        d1    == [d EXCEPT ![Base1 + k1] = p.u]
        k2    == OtherDiagonal(k1, delta)
        chk   == ForwardCheck(delta, DD, k2)
        cross == chk /\ Overlap(Rd(d1, Base1, k1), Rd(d1, Base2, k2), N)
        acc   == {Access(1, r, "r", <<1, r>> \in written) : r \in p.reads}
                   \cup {Access(1, k1, "w", TRUE)}
                   \cup (IF chk THEN {Access(1, k1, "r", TRUE),
                                      Access(2, k2, "r", <<2, k2>> \in written)}
                                ELSE {})
    IN  [data |-> d1, cross |-> cross, snake |-> ForwardSnake(p, DD), acc |-> acc,
         ok |-> p.defined /\ \A t \in acc :
                    InVector(d, IF t.arr = 1 THEN Base1 ELSE Base2, t.k)]

\* one iteration of the loop over k2 (lines 74-82) on the vector d
ReverseIter(d, f, DD, k2) ==
    LET N     == f.endA - f.begA
        M     == f.endB - f.begB
        delta == N - M
        p     == find_end_snake_of_further_reaching_dpath(RevView(A, f.begA, N), N, RevView(B, f.begB, M), M,
                              d, Base2, DD, k2)
        d1    == [d EXCEPT ![Base2 + k2] = p.u]
        k1    == OtherDiagonal(k2, delta)
        chk   == ReverseCheck(delta, DD, k1)
        cross == chk /\ Overlap(Rd(d1, Base1, k1), Rd(d1, Base2, k2), N)
        acc   == {Access(2, r, "r", <<2, r>> \in written) : r \in p.reads}
                   \cup {Access(2, k2, "w", TRUE)}
                   \cup (IF chk THEN {Access(2, k2, "r", TRUE),
                                      Access(1, k1, "r", <<1, k1>> \in written)}
                                ELSE {})
    IN  [data |-> d1, cross |-> cross, snake |-> ReverseSnake(p, N, M, DD), acc |-> acc,
         ok |-> p.defined /\ \A t \in acc :
                    InVector(d, IF t.arr = 1 THEN Base1 ELSE Base2, t.k)]

----------------------------------------------------------------------------
(* append_diff *)

Diff(mode, len, posB) == [mode |-> mode, len |-> len, posB |-> posB]

\* faulty variant: Add records are never merged
MergeableNoAdd(last, diff) == last.mode = diff.mode /\ diff.mode # "Add"

\* the condition under which the record is merged into diffs.back()
Mergeable(last, diff) ==
    last.mode = diff.mode /\ (diff.mode # "Add" \/ last.posB + last.len = diff.posB)

append_diff(ds, diff) ==
    IF diff.len = 0 THEN ds
    ELSE IF ds # <<>> /\ Mergeable(ds[Len(ds)], diff)
         THEN [ds EXCEPT ![Len(ds)].len = @ + diff.len]
         ELSE Append(ds, diff)

----------------------------------------------------------------------------
(* find_diff_rec *)

InRange(S, i) == 0 <= i /\ i < Len(S)

RECURSIVE StripPrefix(_, _, _, _, _)
\* while (begA != endA and begB != endB and eq(a[begA], b[begB])) ++begA, ++begB, ++prefix_len;
\* ub: the loop reads outside a or b
StripPrefix(begA, endA, begB, endB, n) ==
    IF begA # endA /\ begB # endB
    THEN IF ~(InRange(A, begA) /\ InRange(B, begB))
         THEN [begA |-> begA, begB |-> begB, len |-> n, ub |-> TRUE]
         ELSE IF Eq(A[begA + 1], B[begB + 1])
              THEN StripPrefix(begA + 1, endA, begB + 1, endB, n + 1)
              ELSE [begA |-> begA, begB |-> begB, len |-> n, ub |-> FALSE]
    ELSE [begA |-> begA, begB |-> begB, len |-> n, ub |-> FALSE]

RECURSIVE StripSuffix(_, _, _, _, _)
\* while (begA != endA and begB != endB and eq(a[endA-1], b[endB-1])) --endA, --endB, ++suffix_len;
StripSuffix(begA, endA, begB, endB, n) ==
    IF begA # endA /\ begB # endB
    THEN IF ~(InRange(A, endA - 1) /\ InRange(B, endB - 1))
         THEN [endA |-> endA, endB |-> endB, len |-> n, ub |-> TRUE]
         ELSE IF Eq(A[endA], B[endB])
              THEN StripSuffix(begA, endA - 1, begB, endB - 1, n + 1)
              ELSE [endA |-> endA, endB |-> endB, len |-> n, ub |-> FALSE]
    ELSE [endA |-> endA, endB |-> endB, len |-> n, ub |-> FALSE]

\* kak_assert(snake.d > 0 and snake.u <= lenA and snake.v <= lenB);
SnakeAssertion(s, lenA, lenB) == s.d > 0 /\ s.u <= lenA /\ s.v <= lenB

\* const bool recurse = snake.d > 1;
recurse(s) == s.d > 1

\* faulty variant: the roles of add are exchanged
BeforeEndASwapped(begA, s) == begA + s.x - (IF s.reverse THEN 0 ELSE (IF s.add THEN 1 ELSE 0))

\* the end of the first recursive call's ranges (lines 138-139)
BeforeEndA(begA, s) == begA + s.x - (IF s.reverse THEN 0 ELSE (IF s.add THEN 0 ELSE 1))

BeforeEndB(begB, s) == begB + s.y - (IF s.reverse THEN 0 ELSE (IF s.add THEN 1 ELSE 0))

\* faulty variant: snake.u taken as an index into a, begA is not added
AfterBegARelative(begA, s) == s.u + (IF s.reverse THEN (IF s.add THEN 0 ELSE 1) ELSE 0)

\* the start of the second recursive call's ranges (lines 153-154)
AfterBegA(begA, s) == begA + s.u + (IF s.reverse THEN (IF s.add THEN 0 ELSE 1) ELSE 0)

AfterBegB(begB, s) == begB + s.v + (IF s.reverse THEN (IF s.add THEN 1 ELSE 0) ELSE 0)

\* faulty variant: posB one too far
ForwardEditOffByOne(begB, s) ==
    IF s.add THEN Diff("Add", 1, begB + s.y) ELSE Diff("Remove", 1, 0)

\* the edit step of a forward snake (lines 143-144)
ForwardEdit(begB, s) == IF s.add THEN Diff("Add", 1, begB + s.y - 1) ELSE Diff("Remove", 1, 0)

\* faulty variant: posB relative to the remainder, not to B
ReverseEditRelative(begB, s) == IF s.add THEN Diff("Add", 1, s.v) ELSE Diff("Remove", 1, 0)

\* the edit step of a reverse snake (lines 149-150)
ReverseEdit(begB, s) == IF s.add THEN Diff("Add", 1, begB + s.v) ELSE Diff("Remove", 1, 0)

\* lines 142-150: the edit step and the Keep of the snake, in the order of its direction
MiddleDiffs(ds, begB, s) ==
    LET d1 == IF ~s.reverse THEN append_diff(ds, ForwardEdit(begB, s)) ELSE ds
        d2 == append_diff(d1, Diff("Keep", s.u - s.x, 0))
    IN  IF s.reverse THEN append_diff(d2, ReverseEdit(begB, s)) ELSE d2

\* lines 115-130 and 158 on the script ds: what the call appends when it does not search
BaseDiffs(ds, pre, suf, lenA, lenB) ==
    LET d1 == append_diff(ds, Diff("Keep", pre.len, 0))
        d2 == IF lenA = 0 THEN append_diff(d1, Diff("Add", lenB, pre.begB))
              ELSE append_diff(d1, Diff("Remove", lenA, 0))
    IN  append_diff(d2, Diff("Keep", suf.len, 0))

Frame(begA, endA, begB, endB, suffix_len) ==
    [begA |-> begA, endA |-> endA, begB |-> begB, endB |-> endB,
     suffix_len |-> suffix_len, snake |-> NoSnake, snake2 |-> NoSnake, phase |-> "search"]

Top == stack[Len(stack)]

Pop == SubSeq(stack, 1, Len(stack) - 1)

SetTop(f) == [stack EXCEPT ![Len(stack)] = f]

Args(begA, endA, begB, endB) == [begA |-> begA, endA |-> endA, begB |-> begB, endB |-> endB]

----------------------------------------------------------------------------
(* The program. *)

\* find_diff: the vector is value-initialised, the script is empty, and
\* find_diff_rec(a, 0, N, b, 0, M, ...) is about to be entered
Init ==
    /\ \E in \in Inputs : A = in[1] /\ B = in[2]
    /\ data = DataInit(Len(A), Len(B), 0)
    /\ \E fill \in StaleValues : shadow = DataInit(Len(A), Len(B), fill)
    /\ diffs = <<>>
    /\ diffs2 = <<>>
    /\ stack = <<>>
    /\ args = Args(0, Len(A), 0, Len(B))
    /\ pc = "call"
    /\ D = 0
    /\ k = 0
    /\ touched = {}
    /\ written = {}

\* find_diff_rec, from its entry to the start of find_middle_snake's loop, or to its
\* return when one of the stripped ranges is empty
Enter ==
    /\ pc = "call"
    /\ LET pre  == StripPrefix(args.begA, args.endA, args.begB, args.endB, 0)
           suf  == StripSuffix(pre.begA, args.endA, pre.begB, args.endB, 0)
           lenA == suf.endA - pre.begA
           lenB == suf.endB - pre.begB
       IN  IF pre.ub \/ suf.ub
           THEN /\ pc' = "ub"
                /\ UNCHANGED <<data, shadow, diffs, diffs2, stack, D, k, touched, written>>
           ELSE IF lenA = 0 \/ lenB = 0
           THEN /\ diffs' = BaseDiffs(diffs, pre, suf, lenA, lenB)
                /\ diffs2' = BaseDiffs(diffs2, pre, suf, lenA, lenB)
                /\ pc' = "ret"
                /\ touched' = {}
                /\ UNCHANGED <<data, shadow, stack, D, k, written>>
           ELSE /\ diffs' = append_diff(diffs, Diff("Keep", pre.len, 0))
                /\ diffs2' = append_diff(diffs2, Diff("Keep", pre.len, 0))
                /\ stack' = Append(stack, Frame(pre.begA, suf.endA, pre.begB, suf.endB, suf.len))
                /\ data' = InitSearch(data)
                /\ shadow' = InitSearch(shadow)
                /\ written' = InitSearchWrites
                /\ touched' = {Access(w[1], w[2], "w", TRUE) : w \in InitSearchWrites}
                /\ D' = 0
                /\ k' = 0
                /\ pc' = IF 0 <= MaxD(lenA, lenB) THEN "fwd" ELSE "nocross"
    /\ UNCHANGED <<A, B, args>>

\* find_middle_snake: one iteration of the loop over k1
ForwardStep ==
    /\ pc = "fwd"
    /\ LET r  == ForwardIter(data, Top, D, k)
           r2 == ForwardIter(shadow, Top, D, k)
       IN  IF ~r.ok
           THEN /\ pc' = "ub"
                /\ touched' = r.acc
                /\ UNCHANGED <<data, shadow, stack, D, k, written>>
           ELSE /\ data' = r.data
                /\ shadow' = r2.data
                /\ touched' = r.acc
                /\ written' = written \cup {<<1, k>>}
                /\ IF r.cross
                   THEN /\ stack' = SetTop([Top EXCEPT !.snake = r.snake, !.phase = "found",
                                               !.snake2 = IF r2.cross THEN r2.snake ELSE NoSnake])
                        /\ pc' = "snake"
                        /\ UNCHANGED <<D, k>>
                   ELSE /\ stack' = SetTop([Top EXCEPT !.snake2 =
                                               IF r2.cross THEN r2.snake ELSE @])
                        /\ IF k + 2 <= D
                           THEN k' = k + 2 /\ pc' = "fwd"
                           ELSE k' = -D /\ pc' = "rev"
                        /\ D' = D
    /\ UNCHANGED <<A, B, diffs, diffs2, args>>

\* find_middle_snake: one iteration of the loop over k2; leaving the loop over D
\* reaches kak_assert(false)
ReverseStep ==
    /\ pc = "rev"
    /\ LET r  == ReverseIter(data, Top, D, k)
           r2 == ReverseIter(shadow, Top, D, k)
           N  == Top.endA - Top.begA
           M  == Top.endB - Top.begB
       IN  IF ~r.ok
           THEN /\ pc' = "ub"
                /\ touched' = r.acc
                /\ UNCHANGED <<data, shadow, stack, D, k, written>>
           ELSE /\ data' = r.data
                /\ shadow' = r2.data
                /\ touched' = r.acc
                /\ written' = written \cup {<<2, k>>}
                /\ IF r.cross
                   THEN /\ stack' = SetTop([Top EXCEPT !.snake = r.snake, !.phase = "found",
                                               !.snake2 = IF r2.cross THEN r2.snake ELSE NoSnake])
                        /\ pc' = "snake"
                        /\ UNCHANGED <<D, k>>
                   ELSE /\ stack' = SetTop([Top EXCEPT !.snake2 =
                                               IF r2.cross THEN r2.snake ELSE @])
                        /\ IF k + 2 <= D
                           THEN k' = k + 2 /\ D' = D /\ pc' = "rev"
                           ELSE /\ D' = D + 1
                                /\ k' = -(D + 1)
                                /\ pc' = IF D + 1 <= MaxD(N, M) THEN "fwd" ELSE "nocross"
    /\ UNCHANGED <<A, B, diffs, diffs2, args>>

\* find_diff_rec, lines 134-140: the assertion on the snake, then the first
\* recursive call, or lines 142-158 when there is none
SnakeFound ==
    /\ pc = "snake"
    /\ LET f == Top
           s == f.snake
       IN  IF ~SnakeAssertion(s, f.endA - f.begA, f.endB - f.begB)
           THEN /\ pc' = "assert"
                /\ UNCHANGED <<diffs, diffs2, stack, args>>
           ELSE IF recurse(s)
           THEN /\ args' = Args(f.begA, BeforeEndA(f.begA, s), f.begB, BeforeEndB(f.begB, s))
                /\ stack' = SetTop([f EXCEPT !.phase = "before"])
                /\ pc' = "call"
                /\ UNCHANGED <<diffs, diffs2>>
           ELSE /\ diffs' = append_diff(MiddleDiffs(diffs, f.begB, s),
                                       Diff("Keep", f.suffix_len, 0))
                /\ diffs2' = append_diff(MiddleDiffs(diffs2, f.begB, f.snake2),
                                        Diff("Keep", f.suffix_len, 0))
                /\ stack' = Pop
                /\ pc' = "ret"
                /\ UNCHANGED args
    /\ touched' = {}
    /\ UNCHANGED <<A, B, data, shadow, D, k, written>>

\* find_diff_rec, lines 142-155: back from the first recursive call, the edit step
\* and the Keep of the snake, then the second recursive call
ReturnBefore ==
    /\ pc = "ret"
    /\ stack # <<>>
    /\ Top.phase = "before"
    /\ diffs' = MiddleDiffs(diffs, Top.begB, Top.snake)
    /\ diffs2' = MiddleDiffs(diffs2, Top.begB, Top.snake2)
    /\ args' = Args(AfterBegA(Top.begA, Top.snake), Top.endA,
                    AfterBegB(Top.begB, Top.snake), Top.endB)
    /\ stack' = SetTop([Top EXCEPT !.phase = "after"])
    /\ pc' = "call"
    /\ UNCHANGED <<A, B, data, shadow, D, k, touched, written>>

\* find_diff_rec, line 158: back from the second recursive call
ReturnAfter ==
    /\ pc = "ret"
    /\ stack # <<>>
    /\ Top.phase = "after"
    /\ diffs' = append_diff(diffs, Diff("Keep", Top.suffix_len, 0))
    /\ diffs2' = append_diff(diffs2, Diff("Keep", Top.suffix_len, 0))
    /\ stack' = Pop
    /\ UNCHANGED <<A, B, data, shadow, args, pc, D, k, touched, written>>

\* find_diff: return diffs
Finish ==
    /\ pc = "ret"
    /\ stack = <<>>
    /\ pc' = "done"
    /\ UNCHANGED <<A, B, data, shadow, diffs, diffs2, stack, args, D, k, touched, written>>

Next == Enter \/ ForwardStep \/ ReverseStep \/ SnakeFound \/ ReturnBefore \/ ReturnAfter \/ Finish

Spec == Init /\ [][Next]_vars

----------------------------------------------------------------------------
(* Reference definitions used to state the properties. *)

Done == pc = "done"

N0 == Len(A)

M0 == Len(B)

RECURSIVE Replay(_, _, _, _)
\* the script ds replayed from record i on, with the A cursor at ia and the output
\* out so far: Keep copies the next len elements of A, Remove skips len elements of A,
\* Add copies B[posB, posB+len).  Every output element is tagged with its origin.
Replay(ds, i, ia, out) ==
    IF i > Len(ds) THEN [out |-> out, ia |-> ia, ok |-> TRUE]
    ELSE LET r == ds[i] IN
         IF r.mode = "Keep"
         THEN IF r.len < 0 \/ ia + r.len > N0 THEN [out |-> out, ia |-> ia, ok |-> FALSE]
              ELSE Replay(ds, i + 1, ia + r.len,
                          out \o [j \in 1..r.len |-> <<A[ia + j], "A">>])
         ELSE IF r.mode = "Remove"
         THEN IF r.len < 0 \/ ia + r.len > N0 THEN [out |-> out, ia |-> ia, ok |-> FALSE]
              ELSE Replay(ds, i + 1, ia + r.len, out)
         ELSE IF r.len < 0 \/ r.posB < 0 \/ r.posB + r.len > M0
              THEN [out |-> out, ia |-> ia, ok |-> FALSE]
              ELSE Replay(ds, i + 1, ia,
                          out \o [j \in 1..r.len |-> <<B[r.posB + j], "B">>])

Replayed == Replay(diffs, 1, 0, <<>>)

Output == [j \in 1..Len(Replayed.out) |-> Replayed.out[j][1]]

RECURSIVE LCS(_, _)
\* length of a longest common subsequence of A[0,i) and B[0,j) under Eq
LCS(i, j) ==
    IF i = 0 \/ j = 0 THEN 0
    ELSE IF Eq(A[i], B[j]) THEN 1 + LCS(i - 1, j - 1)
    ELSE LET p == LCS(i - 1, j)
             q == LCS(i, j - 1)
         IN  IF p >= q THEN p ELSE q

EditDistance == N0 + M0 - 2 * LCS(N0, M0)

RECURSIVE SumLen(_, _, _)
\* sum of len over the records of ds from i on whose mode is in modes
SumLen(ds, i, modes) ==
    IF i > Len(ds) THEN 0
    ELSE (IF ds[i].mode \in modes THEN ds[i].len ELSE 0) + SumLen(ds, i + 1, modes)

Cost == SumLen(diffs, 1, {"Add", "Remove"})

\* the B cursor before record i
CursorB(i) == SumLen(SubSeq(diffs, 1, i - 1), 1, {"Keep", "Add"})

Frames == {stack[i] : i \in 1..Len(stack)}

FoundFrames == {f \in Frames : f.phase # "search"}

Size(r) == (r.endA - r.begA) + (r.endB - r.begB)

----------------------------------------------------------------------------
(* The properties. *)

\* C1 as stated: replaying the returned script (Keep copies from A, Add copies
\* B[posB, posB+len)) gives an output that is exactly B
RoundTripExact == Done => (Replayed.ok /\ Output = B)

\* C1, amended: replaying the returned script consumes exactly A and gives an output
\* of length M in which every element copied by a Keep is Eq-equal to the element of
\* B at the same position and every element copied by an Add is that element of B
RoundTripUpToEq ==
    Done => /\ Replayed.ok
            /\ Replayed.ia = N0
            /\ Len(Replayed.out) = M0
            /\ \A j \in 1..M0 :
                  LET e == Replayed.out[j] IN
                  IF e[2] = "A" THEN Eq(e[1], B[j]) ELSE e[1] = B[j]

\* a returned script whose Keep copies an element of A that is not the element of B
\* at that position
RoundTripWitness ==
    Done /\ \E j \in 1..Len(Replayed.out) :
                Replayed.out[j][2] = "A" /\ j <= M0 /\ Replayed.out[j][1] # B[j]

\* C2: the Add and Remove lengths of the returned script sum to the insert/delete
\* edit distance N + M - 2*LCS(A, B); for the example of the paper the sum is 5
Minimality ==
    Done => /\ Cost = EditDistance
            /\ (A = ClassicA /\ B = ClassicB) => Cost = 5

MinimalityWitness == Done /\ A = ClassicA /\ B = ClassicB /\ Cost = 5

\* C3: the script never holds a record of length 0 nor two adjacent records of the
\* same mode
Compaction ==
    /\ \A i \in 1..Len(diffs) : diffs[i].len # 0
    /\ \A i \in 1..(Len(diffs) - 1) : diffs[i].mode # diffs[i + 1].mode

\* an edit step of a snake has just been merged into the Add record before it
CompactionWitness ==
    /\ pc = "call" /\ stack # <<>> /\ Top.phase = "after"
    /\ Top.snake.add /\ ~Top.snake.reverse /\ Top.snake.u = Top.snake.x
    /\ diffs # <<>> /\ diffs[Len(diffs)].mode = "Add" /\ diffs[Len(diffs)].len >= 2

\* C4: in the returned script every Add starts at the running B cursor, Keep and
\* Remove lengths sum to N, Keep and Add lengths sum to M
Positional ==
    Done => /\ \A i \in 1..Len(diffs) : diffs[i].mode = "Add" => diffs[i].posB = CursorB(i)
            /\ SumLen(diffs, 1, {"Keep", "Remove"}) = N0
            /\ SumLen(diffs, 1, {"Keep", "Add"}) = M0

\* a returned script with an Add that is not at the start of B
PositionalWitness ==
    Done /\ \E i \in 1..Len(diffs) : diffs[i].mode = "Add" /\ diffs[i].posB > 0 /\ i > 2

\* C5: the loop over D never ends without a crossing
CrossingFound == pc # "nocross"

\* a crossing found in the last iteration the loop allows
CrossingFoundWitness ==
    pc = "snake" /\ D = MaxD(Top.endA - Top.begA, Top.endB - Top.begB)

\* C6: every snake returned satisfies the assertion of find_diff_rec
SnakeInBounds ==
    /\ pc # "assert"
    /\ pc = "snake" => SnakeAssertion(Top.snake, Top.endA - Top.begA, Top.endB - Top.begB)

\* a snake returned by a search in which a furthest reaching path left the edit graph
SnakeInBoundsWitness ==
    /\ pc = "snake"
    /\ \E w \in written :
          LET x == Rd(data, IF w[1] = 1 THEN Base1 ELSE Base2, w[2])
          IN  x > Top.endA - Top.begA \/ x - w[2] > Top.endB - Top.begB

\* C7: in every recursive case the ranges of the two recursive calls lie in order
\* inside the stripped remainder, what lies between them is the Keep of the snake and
\* the one edit step, and both are empty when there is no recursion
Partition ==
    \A f \in FoundFrames :
        LET s  == f.snake
            XA == BeforeEndA(f.begA, s)
            XB == BeforeEndB(f.begB, s)
            YA == AfterBegA(f.begA, s)
            YB == AfterBegB(f.begB, s)
        IN  /\ f.begA <= XA /\ XA <= YA /\ YA <= f.endA
            /\ f.begB <= XB /\ XB <= YB /\ YB <= f.endB
            /\ YA - XA = (s.u - s.x) + (IF s.add THEN 0 ELSE 1)
            /\ YB - XB = (s.u - s.x) + (IF s.add THEN 1 ELSE 0)
            /\ ~recurse(s) => (XA = f.begA /\ XB = f.begB /\ YA = f.endA /\ YB = f.endB)

\* a reverse snake found inside a recursive call made for a forward snake
PartitionWitness ==
    /\ Len(stack) >= 2
    /\ stack[1].phase \in {"before", "after"} /\ ~stack[1].snake.reverse
    /\ stack[2].phase \in {"before", "after"} /\ stack[2].snake.reverse

\* bound on the steps of a find_diff_rec call on ranges of total size n
Work(n) == (n + 2) * (n + 2) * (n + 2)

\* iterations of the two inner loops for D in 0..h
LoopSteps(h) == (h + 1) * (h + 2)

\* bound on the iterations find_middle_snake still makes, the current one included
SearchLeft(f) ==
    LoopSteps(MaxD(f.endA - f.begA, f.endB - f.begB)) - LoopSteps(D)
        + ((D - k) \div 2 + 1) + (IF pc = "fwd" THEN D + 1 ELSE 0)

\* bound on the steps of a recursive case of size n once its snake is found
AfterSearch(n) == 3 + Work(n - 1) + Work(0)

\* bound on the steps a frame below the running call still has to make
Pending(f) ==
    IF f.phase = "before"
    THEN 2 + Work((f.endA - AfterBegA(f.begA, f.snake)) + (f.endB - AfterBegB(f.begB, f.snake)))
    ELSE 1

RECURSIVE PendingSum(_)
PendingSum(n) == IF n = 0 THEN 0 ELSE Pending(stack[n]) + PendingSum(n - 1)

\* a bound on the number of steps to the return of find_diff
Rank ==
    IF pc = "call" THEN 1 + Work(Size(args)) + PendingSum(Len(stack))
    ELSE IF pc \in {"fwd", "rev"}
    THEN 1 + SearchLeft(Top) + AfterSearch(Size(Top)) + PendingSum(Len(stack) - 1)
    ELSE IF pc = "snake" THEN 1 + AfterSearch(Size(Top)) + PendingSum(Len(stack) - 1)
    ELSE IF pc = "ret" THEN 1 + PendingSum(Len(stack))
    ELSE 0

\* the guards of the actions: the program is at a position where a step is defined
CanStep ==
    \/ pc = "call"
    \/ pc \in {"fwd", "rev", "snake"} /\ stack # <<>>
    \/ pc = "ret" /\ (stack = <<>> \/ Top.phase \in {"before", "after"})

\* C8: find_diff returns (every step lowers a natural number and the program can
\* step wherever it has not returned); every recursive call is made on ranges strictly smaller in
\* total than its caller's stripped remainder; the nesting depth of a call never
\* exceeds the edit distance of the inputs, which is at most N + M
Termination ==
    /\ [][Rank' < Rank]_vars
    /\ [](Rank >= 0 /\ (Done \/ CanStep))
    /\ [](pc = "call" /\ stack # <<>> => Size(args) < Size(Top))
    /\ [](pc = "call" => Len(stack) <= EditDistance /\ EditDistance <= N0 + M0)

\* a call nested two levels below the top-level call
TerminationWitness == pc = "call" /\ Len(stack) >= 2

\* C9: every access to V1 or V2 uses a diagonal between -(N+M) and N+M, that is a
\* slot of the vector reserved for that array
ArrayBounds ==
    \A t \in touched :
        /\ -(N0 + M0) <= t.k /\ t.k <= N0 + M0
        /\ t.arr = 1 => (0 <= Base1 + t.k /\ Base1 + t.k < max(N0, M0))
        /\ t.arr = 2 => (max(N0, M0) <= Base2 + t.k /\ Base2 + t.k < 2 * max(N0, M0))
        /\ InVector(data, IF t.arr = 1 THEN Base1 ELSE Base2, t.k)

\* accesses to a negative diagonal of V2 and a positive diagonal of V1 in a nested call
ArrayBoundsWitness ==
    /\ Len(stack) >= 2
    /\ \E t \in touched : t.arr = 2 /\ t.k < 0
    /\ \E t \in touched : t.arr = 1 /\ t.k > 0

\* C10: every entry of V1 or V2 that a find_middle_snake call reads was written
\* earlier in that call, and the run that started from other vector contents finds
\* the same snakes and builds the same script
StaleIndependence ==
    /\ \A t \in touched : t.fresh
    /\ \A f \in Frames : f.snake2 = f.snake
    /\ diffs2 = diffs

\* a read in a nested call while the vector holds an entry left by an earlier call
\* and the two vectors differ
StaleIndependenceWitness ==
    /\ Len(stack) >= 2
    /\ \E t \in touched : t.kind = "r"
    /\ \E kk \in -(N0 + M0)..(N0 + M0) : <<1, kk>> \notin written /\ Rd(data, Base1, kk) # 0
    /\ data # shadow
    /\ diffs # <<>>

====
